---- MODULE Spec2Model ----
(***************************************************************************)
(* A model of the sentiment chatbot: SentimentAnalyzer and SentimentStats  *)
(* (app/sentiment.py), the ChatMessage table (app/models.py) and the       *)
(* chat_api and analytics_timeline handlers (routes.py).                   *)
(*                                                                         *)
(* Text is a sequence of one-character strings, so that lower(), strip(),  *)
(* split() and the substring test `word in message_lower` are computed     *)
(* character by character.  Reply texts are strings, joined with \o where  *)
(* the code joins them with +=.  The emoji that end some reply texts are   *)
(* left out of the string literals.                                        *)
(*                                                                         *)
(* Numbers: a polarity is an exact fraction [num, den] of Micro-units      *)
(* (1.0 = 1000000 micro); a rounded score is an integer count of 1/10000.  *)
(* Time is an integer count of ticks, TicksPerDay ticks to a calendar day. *)
(***************************************************************************)
EXTENDS Integers, Sequences, FiniteSets, TLC

VARIABLES
    arg,      \* the argument of the function under test (pure-function specs)
    ret,      \* its outcome, Pending until the call has been made
    clock,    \* datetime.utcnow(), in ticks
    db,       \* the chat_messages table: a sequence of ChatMessage rows
    handler   \* the request being served, or the last reply sent

vars == <<arg, ret, clock, db, handler>>

Pending == [state |-> "pending"]
NoArg == [fn |-> "none"]
Idle == [op |-> "idle"]

\* ------------------------------------------------------------------ bounds

\* A message of the response specification is at most this many fragments.
MaxFragments == 2

\* ------------------------------------------------------------------- text

Range(s) == {s[i] : i \in 1..Len(s)}

UpperToLower ==
    [A |-> "a", B |-> "b", C |-> "c", D |-> "d", E |-> "e", F |-> "f",
     G |-> "g", H |-> "h", I |-> "i", J |-> "j", K |-> "k", L |-> "l",
     M |-> "m", N |-> "n", O |-> "o", P |-> "p", Q |-> "q", R |-> "r",
     S |-> "s", T |-> "t", U |-> "u", V |-> "v", W |-> "w", X |-> "x",
     Y |-> "y", Z |-> "z"]

\* str.lower()
lower(s) ==
    [i \in 1..Len(s) |->
        IF s[i] \in DOMAIN UpperToLower THEN UpperToLower[s[i]] ELSE s[i]]

Whitespace == {" ", "\t", "\n"}

RECURSIVE lstrip(_)
lstrip(s) ==
    IF s # <<>> /\ Head(s) \in Whitespace THEN lstrip(Tail(s)) ELSE s

RECURSIVE rstrip(_)
rstrip(s) ==
    IF s # <<>> /\ s[Len(s)] \in Whitespace
    THEN rstrip(SubSeq(s, 1, Len(s) - 1))
    ELSE s

\* str.strip()
strip(s) == rstrip(lstrip(s))

\* `w in s` for two str values: w occurs in s as a contiguous substring.
Contains(s, w) ==
    \E i \in 1..(Len(s) - Len(w) + 1) : SubSeq(s, i, i + Len(w) - 1) = w

\* any(word in s for word in words)
AnyIn(words, s) == \E k \in 1..Len(words) : Contains(s, words[k])

RECURSIVE Concat(_)
Concat(parts) ==
    IF parts = <<>> THEN <<>> ELSE Head(parts) \o Concat(Tail(parts))

\* ------------------------------------------------- generate_response

Labels == {"positive", "negative", "neutral"}

responses ==
    [positive |->
        << "That's wonderful! I'm glad you're feeling positive!",
           "I love your enthusiasm! How can I help you further?",
           "Great to hear such positivity! What else can I do for you?",
           "Your positive energy is contagious! What's on your mind?",
           "That's fantastic! I'm here to keep that good mood going!" >>,
     negative |->
        << "I'm sorry to hear that. I'm here to help you feel better.",
           "I understand this might be difficult. Let's work through it together.",
           "I hear you. Sometimes things can be tough. How can I assist you?",
           "I'm here for you. Would you like to talk more about it?",
           "I appreciate you sharing that with me. Let's find a way to help." >>,
     neutral |->
        << "I understand. How can I assist you today?",
           "Got it! What would you like to know?",
           "I'm listening. Please tell me more.",
           "Alright! What can I help you with?",
           "I see. What's your next question?" >>]

HelpSentence ==
    " I'm here to assist you with any questions or concerns you may have."
ThanksReply == "You're very welcome! It's my pleasure to help you."
ByeReply == "Goodbye! Feel free to return anytime. Have a great day!"
HelloReply == "Hello! Nice to meet you! How can I brighten your day?"

HelpWords ==
    << <<"h","e","l","p">>,
       <<"s","u","p","p","o","r","t">>,
       <<"a","s","s","i","s","t">> >>
ThanksWords ==
    << <<"t","h","a","n","k">>,
       <<"t","h","a","n","k","s">>,
       <<"a","p","p","r","e","c","i","a","t","e">> >>
ByeWords ==
    << <<"b","y","e">>,
       <<"g","o","o","d","b","y","e">>,
       <<"s","e","e"," ","y","o","u">> >>
HelloWords ==
    << <<"h","e","l","l","o">>, <<"h","i">>, <<"h","e","y">> >>

\* A slip that ignores the label and always answers from the neutral list.
response_list_neutral_only(sentiment) == responses["neutral"]

\* A slip that falls back to the positive list for an unknown label.
response_list_default_positive(sentiment) ==
    IF sentiment \in DOMAIN responses
    THEN responses[sentiment]
    ELSE responses["positive"]

\* responses.get(sentiment, responses['neutral'])
response_list(sentiment) ==
    IF sentiment \in DOMAIN responses
    THEN responses[sentiment]
    ELSE responses["neutral"]

\* The draws random.choice can make from a list.
Draws(list) == 1..Len(list)

\* A slip that writes the chain with `if` for `elif`: every rule is tried and
\* the last one that matches decides.
generate_response_if_chain(message, sentiment, draw) ==
    LET base_response == response_list(sentiment)[draw]
        message_lower == lower(message)
        r1 == IF AnyIn(HelpWords, message_lower)
              THEN base_response \o HelpSentence ELSE base_response
        r2 == IF AnyIn(ThanksWords, message_lower) THEN ThanksReply ELSE r1
        r3 == IF AnyIn(ByeWords, message_lower) THEN ByeReply ELSE r2
    IN  IF AnyIn(HelloWords, message_lower) THEN HelloReply ELSE r3

\* SentimentAnalyzer.generate_response; draw is the index random.choice picks.
generate_response(message, sentiment, draw) ==
    LET base_response == response_list(sentiment)[draw]
        message_lower == lower(message)
    IN  IF AnyIn(HelpWords, message_lower)
            THEN base_response \o HelpSentence
        ELSE IF AnyIn(ThanksWords, message_lower)
            THEN ThanksReply
        ELSE IF AnyIn(ByeWords, message_lower)
            THEN ByeReply
        ELSE IF AnyIn(HelloWords, message_lower)
            THEN HelloReply
        ELSE base_response

\* --------------------------------------- specification: generate_response

\* The pieces the messages of this specification are put together from.
Fragments ==
    { <<"H","e","l","p">>,
      <<"s","u","p","p","o","r","t">>,
      <<"a","s","s","i","s","t">>,
      <<"T","h","a","n","k">>,
      <<"a","p","p","r","e","c","i","a","t","e">>,
      <<"b","y","e">>,
      <<"s","e","e">>,
      <<" ","y","o","u">>,
      <<"h","e","l","l","o">>,
      <<"H","I">>,
      <<"h","e","y">>,
      <<"t">>,
      <<"s">>,
      <<"o","k">> }

FragmentLists == UNION {[1..n -> Fragments] : n \in 0..MaxFragments}

Messages == {Concat(fl) : fl \in FragmentLists}

\* The labels generate_response is called with: the three of the analyzer and
\* one that is none of them.
LabelInputs == Labels \cup {"angry"}

AppUnused == clock = 0 /\ db = <<>> /\ handler = Idle

InitRespond ==
    /\ arg \in [fn : {"generate_response"},
                message : Messages,
                sentiment : LabelInputs]
    /\ ret = Pending
    /\ AppUnused

CallGenerateResponse ==
    /\ arg.fn = "generate_response"
    /\ ret = Pending
    /\ \E draw \in Draws(response_list(arg.sentiment)) :
           ret' = [raised |-> "none",
                   value |-> generate_response(arg.message, arg.sentiment, draw)]
    /\ UNCHANGED <<arg, clock, db, handler>>

NextRespond == CallGenerateResponse

SpecRespond == InitRespond /\ [][NextRespond]_vars

\* The four keyword rules, as tests on the lowercased message.
Rule1(m) == AnyIn(HelpWords, lower(m))
Rule2(m) == AnyIn(ThanksWords, lower(m))
Rule3(m) == AnyIn(ByeWords, lower(m))
Rule4(m) == AnyIn(HelloWords, lower(m))
NoKeyword(m) == ~Rule1(m) /\ ~Rule2(m) /\ ~Rule3(m) /\ ~Rule4(m)

Responded == arg.fn = "generate_response" /\ ret # Pending

AllCandidates == UNION {Range(responses[l]) : l \in Labels}

\* C1: the keyword rules are tried in the order help, thanks, bye, hello on
\* the lowercased message and only the first that matches takes effect: a
\* help match returns one base candidate followed by the help sentence, also
\* when keywords of later rules occur; otherwise a thanks match returns
\* exactly the acknowledgment, otherwise a bye match exactly the farewell,
\* otherwise a hello match exactly the greeting, whatever the label and draw.
C1_FirstMatchingRuleWins ==
    Responded =>
        /\ ret.raised = "none"
        /\ Rule1(arg.message) =>
               \E base \in AllCandidates : ret.value = base \o HelpSentence
        /\ (~Rule1(arg.message) /\ Rule2(arg.message)) =>
               ret.value = ThanksReply
        /\ (~Rule1(arg.message) /\ ~Rule2(arg.message) /\ Rule3(arg.message)) =>
               ret.value = ByeReply
        /\ (~Rule1(arg.message) /\ ~Rule2(arg.message) /\ ~Rule3(arg.message)
              /\ Rule4(arg.message)) =>
               ret.value = HelloReply

\* A message holding a help keyword and a thanks keyword got the appended
\* help sentence, not the acknowledgment.
C1_Witness ==
    /\ Responded
    /\ Rule1(arg.message) /\ Rule2(arg.message)
    /\ \E base \in AllCandidates : ret.value = base \o HelpSentence

\* C2 as claimed: a label that is none of positive, negative, neutral makes
\* generate_response fail with an invalid-argument error and return no text.
C2_UnknownLabelFailsFast ==
    (Responded /\ arg.sentiment \notin Labels) => ret.raised # "none"

\* C2 as amended: a label that is none of the three raises nothing and is
\* answered from the neutral candidates: a message without keywords gets a
\* neutral candidate, a help message a neutral candidate followed by the help
\* sentence.
C2_UnknownLabelAnsweredAsNeutral ==
    (Responded /\ arg.sentiment \notin Labels) =>
        /\ ret.raised = "none"
        /\ NoKeyword(arg.message) => ret.value \in Range(responses["neutral"])
        /\ Rule1(arg.message) =>
               \E base \in Range(responses["neutral"]) :
                   ret.value = base \o HelpSentence

\* An unknown label on a message without keywords was answered.
C2_Witness ==
    /\ Responded
    /\ arg.sentiment \notin Labels
    /\ NoKeyword(arg.message)
    /\ ret.value \in Range(responses["neutral"])

\* C8: for a label of the three and a message without any keyword of the four
\* rules, every draw returns a member of that label's candidate list and never
\* a text that only another label's list holds.
C8_BaseResponseFromOwnList ==
    (Responded /\ arg.sentiment \in Labels /\ NoKeyword(arg.message)) =>
        /\ ret.value \in Range(responses[arg.sentiment])
        /\ \A other \in Labels \ {arg.sentiment} :
               ret.value \in Range(responses[other]) =>
                   ret.value \in Range(responses[arg.sentiment])

\* A positive label on a non-empty message without keywords was answered.
C8_Witness ==
    /\ Responded
    /\ arg.sentiment = "positive"
    /\ arg.message # <<>>
    /\ NoKeyword(arg.message)
    /\ ret.value \in Range(responses["positive"])

\* ------------------------------------------------------ analyze_sentiment

\* One unit of polarity, 1.0, in the model's fixed-point unit.
Micro == 1000 * 1000

\* str.split(): the maximal runs of non-whitespace characters.
RECURSIVE split(_)
split(s) ==
    LET t == lstrip(s)
        n == IF \E i \in 1..Len(t) : t[i] \in Whitespace
             THEN (CHOOSE i \in 1..Len(t) :
                       /\ t[i] \in Whitespace
                       /\ \A j \in 1..(i - 1) : t[j] \notin Whitespace) - 1
             ELSE Len(t)
    IN  IF t = <<>> THEN <<>>
        ELSE <<SubSeq(t, 1, n)>> \o split(SubSeq(t, n + 1, Len(t)))

\* The word-level sentiment lexicon: a few entries, in Micro units, each a
\* four-decimal value.
Lexicon ==
    (<<"b","e","s","t">> :> 1000000) @@
    (<<"f","i","r","s","t">> :> 250000) @@
    (<<"m","a","i","n">> :> 166700)

Negations == { <<"n","o","t">>, <<"n","e","v","e","r">> }
Intensifiers == { <<"v","e","r","y">>, <<"e","x","t","r","e","m","e","l","y">> }

\* An intensifier scales a contribution by IntensityNum / IntensityDen.
IntensityNum == 13
IntensityDen == 10

\* The contributions of the sentiment-bearing tokens, in order: a negation
\* next to a token inverts it, an intensifier next to it scales it up.
RECURSIVE Assessments(_, _, _)
Assessments(tokens, negated, boosted) ==
    IF tokens = <<>> THEN <<>>
    ELSE LET t == Head(tokens)
             rest == Tail(tokens)
         IN  IF t \in Negations THEN Assessments(rest, TRUE, boosted)
             ELSE IF t \in Intensifiers THEN Assessments(rest, negated, TRUE)
             ELSE IF t \in DOMAIN Lexicon
                 THEN LET v == IF boosted
                               THEN (Lexicon[t] * IntensityNum) \div IntensityDen
                               ELSE Lexicon[t]
                      IN  <<IF negated THEN -v ELSE v>>
                              \o Assessments(rest, FALSE, FALSE)
             ELSE Assessments(rest, FALSE, FALSE)

RECURSIVE Sum(_)
Sum(s) == IF s = <<>> THEN 0 ELSE Head(s) + Sum(Tail(s))

\* TextBlob(text).sentiment.polarity: the average of the contributions as an
\* exact fraction num/den of Micro units, clamped to [-1, 1]; 0 without any.
Polarity(text) ==
    LET a == Assessments(split(lower(text)), FALSE, FALSE)
        n == Len(a)
        total == Sum(a)
    IN  IF n = 0 THEN [num |-> 0, den |-> 1]
        ELSE IF total > n * Micro THEN [num |-> Micro, den |-> 1]
        ELSE IF total < -(n * Micro) THEN [num |-> -Micro, den |-> 1]
        ELSE [num |-> total, den |-> n]

\* The thresholds 0.1 and -0.1, in Micro units.
PositiveThreshold == 100000
NegativeThreshold == -100000

\* A slip of sign in the first threshold.
classify_sign_slip(polarity) ==
    IF polarity.num > NegativeThreshold * polarity.den THEN "positive"
    ELSE IF polarity.num < NegativeThreshold * polarity.den THEN "negative"
    ELSE "neutral"

\* The if/elif/else of analyze_sentiment, on the unrounded polarity.
classify(polarity) ==
    IF polarity.num > PositiveThreshold * polarity.den THEN "positive"
    ELSE IF polarity.num < NegativeThreshold * polarity.den THEN "negative"
    ELSE "neutral"

\* n/d rounded to the nearest integer, a tie to the even one (d > 0).
RoundHalfEven(n, d) ==
    LET f == n \div d
        r == n - f * d
    IN  IF 2 * r > d THEN f + 1
        ELSE IF 2 * r < d THEN f
        ELSE IF f % 2 = 0 THEN f ELSE f + 1

\* Micro units in one unit of the fourth decimal.
MicroPerTenThousandth == Micro \div 10000

\* round(polarity, 4), as a count of ten-thousandths.
round4(polarity) ==
    RoundHalfEven(polarity.num, polarity.den * MicroPerTenThousandth)

\* SentimentAnalyzer.analyze_sentiment: the label of the unrounded polarity
\* and the polarity rounded to four decimals.
analyze_sentiment(text) ==
    LET polarity == Polarity(text)
    IN  [sentiment |-> classify(polarity), score |-> round4(polarity)]

\* --------------------------------------- specification: analyze_sentiment

\* A text of this specification is at most this many words.
MaxWords == 5

Vocabulary ==
    { <<>>,
      <<"o","k">>,
      <<"n","o","t">>,
      <<"V","e","r","y">>,
      <<"b","e","s","t">>,
      <<"F","i","r","s","t">>,
      <<"m","a","i","n">> }

RECURSIVE join(_)
join(words) ==
    IF words = <<>> THEN <<>>
    ELSE IF Len(words) = 1 THEN Head(words)
    ELSE Head(words) \o <<" ">> \o join(Tail(words))

Texts == {join(ws) : ws \in UNION {[1..n -> Vocabulary] : n \in 0..MaxWords}}

InitAnalyze ==
    /\ arg \in [fn : {"analyze_sentiment"}, text : Texts]
    /\ ret = Pending
    /\ AppUnused

CallAnalyzeSentiment ==
    /\ arg.fn = "analyze_sentiment"
    /\ ret = Pending
    /\ ret' = [raised |-> "none", value |-> analyze_sentiment(arg.text)]
    /\ UNCHANGED <<arg, clock, db, handler>>

NextAnalyze == CallAnalyzeSentiment

SpecAnalyze == InitAnalyze /\ [][NextAnalyze]_vars

Analyzed == arg.fn = "analyze_sentiment" /\ ret # Pending

NoSentimentToken(text) ==
    \A t \in Range(split(lower(text))) : t \notin DOMAIN Lexicon

\* C3: the returned pair obeys the threshold rule applied to the returned
\* four-decimal score: positive iff score > 0.1, negative iff score < -0.1,
\* neutral otherwise, so that a returned 0.1 or -0.1 is always neutral.
C3_LabelFollowsReturnedScore ==
    Analyzed =>
        /\ ret.value.sentiment = "positive" <=> ret.value.score > 1000
        /\ ret.value.sentiment = "negative" <=> ret.value.score < -1000
        /\ ret.value.sentiment = "neutral" <=>
               (ret.value.score >= -1000 /\ ret.value.score <= 1000)

\* C9: for every text, the empty and the whitespace-only ones included,
\* analyze_sentiment returns without failing a score within [-1.0, 1.0], and
\* the score is exactly 0.0 with the label neutral when the text has no
\* recognized sentiment token.
C9_ScoreInRangeAndZeroDefault ==
    Analyzed =>
        /\ ret.raised = "none"
        /\ ret.value.score \in -10000..10000
        /\ NoSentimentToken(arg.text) =>
               (ret.value.score = 0 /\ ret.value.sentiment = "neutral")

\* A whitespace-only text was analyzed and came back 0.0, neutral.
C9_Witness ==
    /\ Analyzed
    /\ arg.text # <<>>
    /\ strip(arg.text) = <<>>
    /\ ret.value = [sentiment |-> "neutral", score |-> 0]

\* --------------------------------------------------- calculate_statistics

\* sum(1 for msg in messages if msg.sentiment == label)
RECURSIVE count_sentiment(_, _)
count_sentiment(messages, label) ==
    IF messages = <<>> THEN 0
    ELSE (IF Head(messages).sentiment = label THEN 1 ELSE 0)
             + count_sentiment(Tail(messages), label)

\* A slip that truncates the percentage instead of rounding it.
percent_truncated(count, total) == (count * 1000) \div total

\* round((count / total) * 100, 1), as a count of tenths of a percent.
percent(count, total) == RoundHalfEven(count * 1000, total)

ZeroStatistics ==
    [total |-> 0, positive |-> 0, negative |-> 0, neutral |-> 0,
     positive_percent |-> 0, negative_percent |-> 0, neutral_percent |-> 0]

\* A slip that takes for neutral whatever is neither positive nor negative.
calculate_statistics_neutral_rest(messages) ==
    IF messages = <<>> THEN ZeroStatistics
    ELSE LET total == Len(messages)
             positive == count_sentiment(messages, "positive")
             negative == count_sentiment(messages, "negative")
             neutral == total - positive - negative
         IN  [total |-> total,
              positive |-> positive,
              negative |-> negative,
              neutral |-> neutral,
              positive_percent |-> percent(positive, total),
              negative_percent |-> percent(negative, total),
              neutral_percent |-> percent(neutral, total)]

\* SentimentStats.calculate_statistics
calculate_statistics(messages) ==
    IF messages = <<>> THEN ZeroStatistics
    ELSE LET total == Len(messages)
             positive == count_sentiment(messages, "positive")
             negative == count_sentiment(messages, "negative")
             neutral == count_sentiment(messages, "neutral")
         IN  [total |-> total,
              positive |-> positive,
              negative |-> negative,
              neutral |-> neutral,
              positive_percent |-> percent(positive, total),
              negative_percent |-> percent(negative, total),
              neutral_percent |-> percent(neutral, total)]

\* ------------------------------------ specification: calculate_statistics

\* A record list of this specification holds at most this many records.
MaxRecords == 4

RecordLists ==
    UNION {[1..n -> [sentiment : LabelInputs]] : n \in 0..MaxRecords}

InitStats ==
    /\ arg \in [fn : {"calculate_statistics"}, messages : RecordLists]
    /\ ret = Pending
    /\ AppUnused

CallCalculateStatistics ==
    /\ arg.fn = "calculate_statistics"
    /\ ret = Pending
    /\ ret' = [raised |-> "none", value |-> calculate_statistics(arg.messages)]
    /\ UNCHANGED <<arg, clock, db, handler>>

NextStats == CallCalculateStatistics

SpecStats == InitStats /\ [][NextStats]_vars

Summarized == arg.fn = "calculate_statistics" /\ ret # Pending

NumberWith(messages, label) ==
    Cardinality({i \in 1..Len(messages) : messages[i].sentiment = label})

NumberUnknown(messages) ==
    Cardinality({i \in 1..Len(messages) : messages[i].sentiment \notin Labels})

\* p, in tenths of a percent, is count/total*100 rounded to one decimal: no
\* other count of tenths is nearer.
IsRoundedPercent(p, count, total) ==
    LET d == p * total - count * 1000
    IN  2 * (IF d < 0 THEN -d ELSE d) <= total

\* C6: the empty list gives all seven fields 0; a non-empty list whose labels
\* are all among the three gives total = its length, each count the number of
\* records with that label (the three summing to total) and each percentage
\* count/total*100 rounded to one decimal (3 positive and 1 negative give
\* 75.0, 25.0, 0.0); nothing divides by zero.
C6_SummaryCountsAndPercentages ==
    Summarized =>
        LET m == arg.messages
            v == ret.value
        IN  /\ ret.raised = "none"
            /\ m = <<>> =>
                   \A f \in DOMAIN v : v[f] = 0
            /\ (m # <<>> /\ NumberUnknown(m) = 0) =>
                   /\ v.total = Len(m)
                   /\ v.positive = NumberWith(m, "positive")
                   /\ v.negative = NumberWith(m, "negative")
                   /\ v.neutral = NumberWith(m, "neutral")
                   /\ v.positive + v.negative + v.neutral = v.total
                   /\ IsRoundedPercent(v.positive_percent, v.positive, v.total)
                   /\ IsRoundedPercent(v.negative_percent, v.negative, v.total)
                   /\ IsRoundedPercent(v.neutral_percent, v.neutral, v.total)
            /\ (Len(m) = 4 /\ NumberWith(m, "positive") = 3
                  /\ NumberWith(m, "negative") = 1) =>
                   /\ v.positive_percent = 750
                   /\ v.negative_percent = 250
                   /\ v.neutral_percent = 0

\* Three positive records and a negative one were summarized.
C6_Witness ==
    /\ Summarized
    /\ NumberWith(arg.messages, "positive") = 3
    /\ NumberWith(arg.messages, "negative") = 1
    /\ ret.value.total = 4
    /\ ret.value.positive_percent = 750

\* C7 as claimed: a list holding a record whose label is none of the three
\* makes calculate_statistics fail with an invalid-argument error instead of
\* returning a summary.
C7_UnknownLabelFailsFast ==
    (Summarized /\ NumberUnknown(arg.messages) > 0) => ret.raised # "none"

\* C7 as amended: such a list raises nothing and is summarized: total counts
\* every record, a record with an unknown label is counted under none of the
\* three labels, so the three counts sum to total less the unknown records.
C7_UnknownLabelsCountedOnlyInTotal ==
    (Summarized /\ NumberUnknown(arg.messages) > 0) =>
        LET m == arg.messages
            v == ret.value
        IN  /\ ret.raised = "none"
            /\ v.total = Len(m)
            /\ v.positive = NumberWith(m, "positive")
            /\ v.negative = NumberWith(m, "negative")
            /\ v.neutral = NumberWith(m, "neutral")
            /\ v.positive + v.negative + v.neutral
                   = v.total - NumberUnknown(m)

\* A list with a known and an unknown label was summarized.
C7_Witness ==
    /\ Summarized
    /\ NumberUnknown(arg.messages) > 0
    /\ NumberWith(arg.messages, "positive") > 0
    /\ ret.value.total > ret.value.positive + ret.value.negative + ret.value.neutral

\* ------------------------------------------------------------ application

\* The users that send requests (current_user.id).
Users == {1, 2}

\* The table holds at most this many rows.
MaxRows == 2

\* Ticks of the clock to a calendar day, and the last tick the clock reaches.
TicksPerDay == 1
MaxClock == 8

\* The clock of the chat specification stops here.
MaxChatClock == 1

\* The clock advances by at most this many ticks while one request is served.
MaxDrift == 1

\* strftime('%Y-%m-%d'): the calendar day of an instant.
DateKey(t) == t \div TicksPerDay

\* strftime('%Y-%m-%d %H:%M:%S'): the calendar day and the time of day.
FormatTimestamp(t) == [date |-> t \div TicksPerDay, time |-> t % TicksPerDay]

\* timedelta(days = n), in ticks.
timedelta_days(n) == n * TicksPerDay

\* What can go wrong while chat_api runs: nothing, the analyzer raises, the
\* commit raises, the reload of the committed row for its timestamp raises.
Faults == {"none", "analyzer", "commit", "reply"}

ChatError(status, text) == [status |-> status, error |-> text]

\* chat_api for user u on the request body, with the table and the clock as
\* they are: the table it leaves and the reply it sends.
chat_api(table, now, u, body, draw, fault) ==
    IF body.kind # "object"
    THEN \* get_json() raises, or gives a value without get()
         [db |-> table,
          reply |-> ChatError(500, "An error occurred processing your message")]
    ELSE
    LET raw == IF "message" \in DOMAIN body THEN body.message ELSE <<>>
        user_message == strip(raw)
    IN  IF user_message = <<>>
        THEN [db |-> table, reply |-> ChatError(400, "Message cannot be empty")]
        ELSE IF fault = "analyzer"
        THEN [db |-> table,
              reply |-> ChatError(500, "An error occurred processing your message")]
        ELSE
        LET analysis == analyze_sentiment(user_message)
            sentiment == analysis.sentiment
            score == analysis.score
            bot_response == generate_response(user_message, sentiment, draw)
            chat_message ==
                [id |-> Len(table) + 1,
                 user_id |-> u,
                 message |-> user_message,
                 response |-> bot_response,
                 sentiment |-> sentiment,
                 sentiment_score |-> score,
                 timestamp |-> now]
        IN  IF fault = "commit"
            THEN \* commit() raises; rollback() drops the pending row
                 [db |-> table,
                  reply |-> ChatError(500, "An error occurred processing your message")]
            ELSE IF fault = "reply"
            THEN \* the row is committed; rollback() has nothing to undo
                 [db |-> Append(table, chat_message),
                  reply |-> ChatError(500, "An error occurred processing your message")]
            ELSE [db |-> Append(table, chat_message),
                  reply |->
                      [status |-> 200,
                       success |-> TRUE,
                       response |-> bot_response,
                       sentiment |-> sentiment,
                       sentiment_score |-> score,
                       timestamp |-> FormatTimestamp(chat_message.timestamp)]]

\* A request to /api/chat, served from start to reply.
ChatApi(requests, faults) ==
    /\ handler = Idle
    /\ Len(db) < MaxRows
    /\ \E req \in requests, fault \in faults,
          draw \in Draws(responses["neutral"]) :
           LET out == chat_api(db, clock, req.user, req.body, draw, fault)
           IN  /\ db' = out.db
               /\ handler' = [op |-> "chat_api", user |-> req.user,
                              request |-> req.body, fault |-> fault,
                              reply |-> out.reply]
    /\ UNCHANGED <<arg, ret, clock>>

\* The reply is sent and the worker is free again.
Deliver ==
    /\ handler # Idle
    /\ handler' = Idle
    /\ UNCHANGED <<arg, ret, clock, db>>

\* Time passes between requests.
Tick(limit) ==
    /\ handler = Idle
    /\ clock < limit
    /\ clock' = clock + 1
    /\ UNCHANGED <<arg, ret, db, handler>>

InitApp ==
    /\ arg = NoArg
    /\ ret = Pending
    /\ clock = 0
    /\ db = <<>>
    /\ handler = Idle

\* ------------------------------------------------ specification: chat_api

NotJson == [kind |-> "not_json"]
JsonMessage(text) == [kind |-> "object", message |-> text]

ChatBodies ==
    { NotJson,
      [kind |-> "object"],
      JsonMessage(<<>>),
      JsonMessage(<<" ", "\t">>),
      JsonMessage(<<" ","V","e","r","y"," ","b","e","s","t"," ">>),
      JsonMessage(<<"n","o","t"," ","f","i","r","s","t"," ","h","e","l","p">>),
      JsonMessage(<<"o","k">>),
      JsonMessage(<<"H","i">>) }

NextChat ==
    \/ ChatApi([user : Users, body : ChatBodies], Faults)
    \/ Deliver
    \/ Tick(MaxChatClock)

SpecChat == InitApp /\ [][NextChat]_vars

ChatStep == handler = Idle /\ handler'.op = "chat_api"

ChatMessageText(body) ==
    IF body.kind = "object" /\ "message" \in DOMAIN body
    THEN body.message ELSE <<>>

\* C10: a ChatMessage is stored if and only if the reply is the success
\* reply; at most one row is stored per request, with the response, sentiment
\* and score of the reply and the requesting user's id; a message empty after
\* trimming gets the 400 error and a failure in any step the 500 error, both
\* with no row stored.
C10_StoredIffSuccess ==
    [][ChatStep =>
         LET reply == handler'.reply
             stored == db' # db
         IN  /\ stored <=> reply.status = 200
             /\ Len(db') <= Len(db) + 1
             /\ SubSeq(db', 1, Len(db)) = db
             /\ reply.status = 200 =>
                    LET row == db'[Len(db')]
                    IN  /\ row.user_id = handler'.user
                        /\ row.response = reply.response
                        /\ row.sentiment = reply.sentiment
                        /\ row.sentiment_score = reply.sentiment_score
             /\ (handler'.request.kind = "object"
                   /\ strip(ChatMessageText(handler'.request)) = <<>>) =>
                    (reply.status = 400 /\ ~stored)
             /\ (handler'.request.kind = "object"
                   /\ strip(ChatMessageText(handler'.request)) # <<>>
                   /\ handler'.fault # "none") =>
                    (reply.status = 500 /\ ~stored)
    ]_vars

\* ------------------------------------------------------ analytics_timeline

\* The handler reads the clock once for week_ago and once in each of the
\* seven turns of its loop.
ClockReadCount == 8

\* The non-decreasing sequences of n clock readings between lo and hi.
RECURSIVE ClockReads(_, _, _)
ClockReads(n, lo, hi) ==
    IF n = 0 THEN {<<>>}
    ELSE UNION {{<<t>> \o r : r \in ClockReads(n - 1, t, hi)} : t \in lo..hi}

ZeroCounts == [positive |-> 0, negative |-> 0, neutral |-> 0]

\* A slip that leaves the user out of the query's filter.
select_messages_any_user(table, u, week_ago) ==
    SelectSeq(table, LAMBDA row : row.timestamp >= week_ago)

\* ChatMessage.query.filter(user_id == current_user.id,
\*                          timestamp >= week_ago).all()
select_messages(table, u, week_ago) ==
    SelectSeq(table, LAMBDA row : row.user_id = u /\ row.timestamp >= week_ago)

\* The loop that fills daily_sentiment, a dict from date key to counts.
RECURSIVE group_by_date(_, _)
group_by_date(messages, daily_sentiment) ==
    IF messages = <<>> THEN daily_sentiment
    ELSE LET msg == Head(messages)
             date_key == DateKey(msg.timestamp)
             with_key == IF date_key \in DOMAIN daily_sentiment
                         THEN daily_sentiment
                         ELSE daily_sentiment @@ (date_key :> ZeroCounts)
         IN  group_by_date(Tail(messages),
                 [with_key EXCEPT ![date_key][msg.sentiment] = @ + 1])

\* analytics_timeline for user u; reads are the clock readings it makes, the
\* first for week_ago, the others one per turn of the loop.
analytics_timeline(table, u, reads) ==
    LET week_ago == reads[1] - timedelta_days(7)
        messages == select_messages(table, u, week_ago)
    IN  IF \E k \in 1..Len(messages) :
               messages[k].sentiment \notin DOMAIN ZeroCounts
        THEN \* daily_sentiment[date_key][msg.sentiment] raises KeyError and
             \* the except branch answers
             [status |-> 500, error |-> "exception"]
        ELSE
        LET daily_sentiment == group_by_date(messages, <<>>)
            date(i) == DateKey(reads[i + 2] - timedelta_days(6 - i))
            sentiment_data(i) ==
                IF date(i) \in DOMAIN daily_sentiment
                THEN daily_sentiment[date(i)]
                ELSE ZeroCounts
        IN  [status |-> 200,
             success |-> TRUE,
             dates |-> [i \in 1..7 |-> date(i - 1)],
             positive |-> [i \in 1..7 |-> sentiment_data(i - 1).positive],
             negative |-> [i \in 1..7 |-> sentiment_data(i - 1).negative],
             neutral |-> [i \in 1..7 |-> sentiment_data(i - 1).neutral]]

Min(a, b) == IF a < b THEN a ELSE b

\* A request to /api/analytics/timeline, served from start to reply; the
\* clock ends at the last reading.
AnalyticsTimeline ==
    /\ handler = Idle
    /\ \E u \in Users,
          reads \in ClockReads(ClockReadCount, clock,
                               Min(clock + MaxDrift, MaxClock)) :
           /\ handler' = [op |-> "analytics_timeline", user |-> u,
                          ref |-> reads[1],
                          reply |-> analytics_timeline(db, u, reads)]
           /\ clock' = reads[ClockReadCount]
    /\ UNCHANGED <<arg, ret, db>>

\* -------------------------------------- specification: analytics_timeline

\* The chat requests that fill the table: user 1 sends a positive, a negative
\* and a neutral message, user 2 a neutral one.  Their replies do not depend
\* on the draw.
TimelineRequests ==
    { [user |-> 1, body |-> JsonMessage(<<"b","e","s","t"," ","b","y","e">>)],
      [user |-> 1,
       body |-> JsonMessage(<<"n","o","t"," ","b","e","s","t"," ","h","i">>)],
      [user |-> 1, body |-> JsonMessage(<<"T","h","a","n","k","s">>)],
      [user |-> 2, body |-> JsonMessage(<<"T","h","a","n","k","s">>)] }

NextTimeline ==
    \/ ChatApi(TimelineRequests, {"none"})
    \/ AnalyticsTimeline
    \/ Deliver
    \/ Tick(MaxClock)

SpecTimeline == InitApp /\ [][NextTimeline]_vars

TimelineReplied ==
    handler.op = "analytics_timeline" /\ handler.reply.status = 200

\* The rows of user u whose timestamp falls on calendar day d.
RowsOn(u, d) ==
    {k \in 1..Len(db) : db[k].user_id = u /\ DateKey(db[k].timestamp) = d}

\* C4: dates, positive, negative and neutral each have length exactly 7, and
\* at every index the three counts sum to the number of the user's records
\* whose timestamp's calendar date is dates[i]; days without records have
\* all three counts 0.
C4_SevenBucketsCountEveryRecord ==
    handler.op = "analytics_timeline" =>
        LET r == handler.reply
        IN  /\ r.status = 200
            /\ Len(r.dates) = 7 /\ Len(r.positive) = 7
            /\ Len(r.negative) = 7 /\ Len(r.neutral) = 7
            /\ \A i \in 1..7 :
                   /\ r.positive[i] + r.negative[i] + r.neutral[i]
                          = Cardinality(RowsOn(handler.user, r.dates[i]))
                   /\ r.positive[i] >= 0 /\ r.negative[i] >= 0
                   /\ r.neutral[i] >= 0

\* A reply with a day that holds two records of different labels, and an
\* empty day.
C4_Witness ==
    /\ TimelineReplied
    /\ \E i \in 1..7 :
           /\ handler.reply.positive[i] = 1
           /\ handler.reply.negative[i] + handler.reply.neutral[i] = 1
    /\ \E i \in 1..7 :
           handler.reply.positive[i] + handler.reply.negative[i]
               + handler.reply.neutral[i] = 0

\* C5: the dates of every reply are 7 consecutive calendar days in ascending
\* order whose last entry is the day of the request's reference instant, also
\* when the clock passes midnight between the handler's readings of it.
C5_SevenConsecutiveDays ==
    TimelineReplied =>
        /\ \A i \in 1..6 : handler.reply.dates[i + 1] = handler.reply.dates[i] + 1
        /\ handler.reply.dates[7] = DateKey(handler.ref)

====
